---------------------------- MODULE Spec2Model ----------------------------
(***************************************************************************)
(* MergeableCollection (o2::mch::eval): a map from key paths to named      *)
(* collections of mergeable objects, with merge, attach, prune, remove and *)
(* proxy operations.                                                       *)
(*                                                                         *)
(* Texts (TString, const char* ) are sequences of one-character strings,    *)
(* so that "/A/" is <<"/", "A", "/">> and the empty text is << >>.         *)
(***************************************************************************)
EXTENDS Integers, Sequences, FiniteSets, TLC

(***************************************************************************)
(* Bounds of the model.                                                    *)
(***************************************************************************)
\* Operations on the collection under study, after its producer's.
MaxOps == 3

\* Operations of the producer of the other collection.
MaxProducerOps == 1

\* Collections: the one under study and the ones merged or attached into it.
NStores == 3

\* Length of the texts given to correctIdentifier.
MaxLen == 4

\* Number of key segments of the key paths that are decoded.
MaxSegs == 3

(***************************************************************************)
(* TString helpers.                                                        *)
(***************************************************************************)
Sep == "/"

CountChar(s, c) == Cardinality({i \in 1..Len(s) : s[i] = c})

BeginsWith(s, p) == Len(p) <= Len(s) /\ SubSeq(s, 1, Len(p)) = p

EndsWith(s, p) == Len(p) <= Len(s) /\ SubSeq(s, Len(s) - Len(p) + 1, Len(s)) = p

\* First index j >= from with s[j] = s[j+1] = "/", or 0 (TString::Index, kNPOS).
IndexOfDoubleSep(s, from) ==
  LET hits == {j \in from..(Len(s) - 1) : s[j] = Sep /\ s[j + 1] = Sep}
  IN  IF hits = {} THEN 0 ELSE CHOOSE j \in hits : \A k \in hits : j <= k

\* TString::ReplaceAll("//", "/"): one pass from the left; after a replacement
\* the search resumes right after the inserted "/" (index += ls2).
RECURSIVE ReplaceAllFrom(_, _)
ReplaceAllFrom(s, from) ==
  LET j == IndexOfDoubleSep(s, from)
  IN  IF j = 0 THEN s
      ELSE ReplaceAllFrom(SubSeq(s, 1, j) \o SubSeq(s, j + 2, Len(s)), j + 1)

ReplaceAll(s) == ReplaceAllFrom(s, 1)

\* First index j >= from at which p occurs in s, or 0 (TString::Index, kNPOS).
IndexOf(s, p, from) ==
  LET hits == {j \in from..(Len(s) - Len(p) + 1) : SubSeq(s, j, j + Len(p) - 1) = p}
  IN  IF hits = {} THEN 0 ELSE CHOOSE j \in hits : \A k \in hits : j <= k

\* TString::Contains
Contains(s, p) == IndexOf(s, p, 1) # 0

\* TString::ReplaceAll(p, ""): nothing is done for an empty p; after a removal
\* the search resumes where the removed text was.
RECURSIVE RemoveAllFrom(_, _, _)
RemoveAllFrom(s, p, from) ==
  LET j == IF p = << >> THEN 0 ELSE IndexOf(s, p, from)
  IN  IF j = 0 THEN s
      ELSE RemoveAllFrom(SubSeq(s, 1, j - 1) \o SubSeq(s, j + Len(p), Len(s)), p, j)

RemoveAll(s, p) == RemoveAllFrom(s, p, 1)

\* TString::Tokenize(delim): the pieces of s between delimiters, the empty
\* ones left out; cur is the piece being read.
RECURSIVE TokenizeFrom(_, _, _, _)
TokenizeFrom(s, delim, i, cur) ==
  IF i > Len(s) THEN (IF cur = << >> THEN << >> ELSE <<cur>>)
  ELSE IF s[i] = delim
       THEN (IF cur = << >> THEN << >> ELSE <<cur>>) \o TokenizeFrom(s, delim, i + 1, << >>)
       ELSE TokenizeFrom(s, delim, i + 1, Append(cur, s[i]))

Tokenize(s, delim) == TokenizeFrom(s, delim, 1, << >>)

(***************************************************************************)
(* Path codec.                                                             *)
(***************************************************************************)
correctIdentifier(sidentifier) ==
  IF sidentifier = << >> THEN sidentifier
  ELSE LET a == IF EndsWith(sidentifier, <<Sep>>) THEN sidentifier
                 ELSE sidentifier \o <<Sep>>
           b == IF BeginsWith(a, <<Sep>>) THEN a ELSE <<Sep>> \o a
       IN  ReplaceAll(b)

\* The positions of the separators of a text, in increasing order.
RECURSIVE SplitIndexFrom(_, _)
SplitIndexFrom(s, start) ==
  IF start > Len(s) THEN << >>
  ELSE IF s[start] = Sep THEN <<start>> \o SplitIndexFrom(s, start + 1)
       ELSE SplitIndexFrom(s, start + 1)

splitIndex(s) == SplitIndexFrom(s, 1)

\* An internalDecode that does not look at the first character.
internalDecodeAnyStart(identifier, index) ==
  LET sp == splitIndex(identifier)
      nkeys == Len(sp) - 1
  IN  IF index >= nkeys THEN << >>
      ELSE IF index < 0
           THEN SubSeq(identifier, sp[Len(sp)] + 1, Len(identifier))
           ELSE SubSeq(identifier, sp[index + 1] + 1, sp[index + 2] - 1)

\* An internalDecode that keeps the separator in front of a key.
internalDecodeKeepingSep(identifier, index) ==
  IF Len(identifier) > 0 /\ identifier[1] # Sep THEN << >>
  ELSE LET sp == splitIndex(identifier)
           nkeys == Len(sp) - 1
       IN  IF index >= nkeys THEN << >>
           ELSE IF index < 0
                THEN SubSeq(identifier, sp[Len(sp)] + 1, Len(identifier))
                ELSE SubSeq(identifier, sp[index + 1], sp[index + 2] - 1)

internalDecode(identifier, index) ==
  IF Len(identifier) > 0 /\ identifier[1] # Sep THEN << >>
  ELSE LET sp == splitIndex(identifier)
           nkeys == Len(sp) - 1
       IN  IF index >= nkeys THEN << >>
           ELSE IF index < 0
                THEN SubSeq(identifier, sp[Len(sp)] + 1, Len(identifier))
                ELSE SubSeq(identifier, sp[index + 1] + 1, sp[index + 2] - 1)

RECURSIVE IdentifierUpTo(_, _, _)
IdentifierUpTo(fullIdentifier, i, n) ==
  IF i >= n THEN << >>
  ELSE <<Sep>> \o internalDecode(fullIdentifier, i)
         \o IdentifierUpTo(fullIdentifier, i + 1, n)

getIdentifier(fullIdentifier) ==
  IdentifierUpTo(fullIdentifier, 0, CountChar(fullIdentifier, Sep) - 1) \o <<Sep>>

\* getKey(identifier, index, idContainsObjName)
getKey(identifier, index, idContainsObjName) ==
  IF ~idContainsObjName
  THEN internalDecode(identifier \o <<Sep, "d", "u", "m", "m", "y">>, index)
  ELSE internalDecode(identifier, index)

getObjectName(fullIdentifier) == internalDecode(fullIdentifier, -1)

(***************************************************************************)
(* Objects, collections and maps.                                          *)
(*                                                                         *)
(* An object is [id, name, cls, val]: id is its address, cls its concrete  *)
(* class, val the state its Merge accumulates.  NullObj is the null        *)
(* pointer.  A THashList is [name, objs], held in the heap `lists` under   *)
(* its address; NoList is the null THashList*.  A TMap is the sequence of  *)
(* its (key, list) pairs in the order its iterator gives them, pairs of    *)
(* equal keys in the order they were added (they share a slot of the hash  *)
(* table); isNull says that fMap is still the null pointer.                *)
(***************************************************************************)
NullObj == [id |-> 0, name |-> << >>, cls |-> "null", val |-> 0]

NoList == 0

NullMap == [isNull |-> TRUE, pairs |-> << >>]

Stores == 1..NStores

VARIABLES fMap, fMessages, lists, nextList, nextObj, attached, proxy, iter, nops, nprod,
          last

vars == <<fMap, fMessages, lists, nextList, nextObj, attached, proxy, iter, nops, nprod, last>>

\* The part of the state the operations of the collection read and write.
World == [fMap |-> fMap, fMessages |-> fMessages, lists |-> lists,
          nextList |-> nextList, nextObj |-> nextObj]

\* TMap::GetValue(const char* ): the value of the first pair with that key.
GetValue(pairs, key) ==
  LET hits == {i \in 1..Len(pairs) : pairs[i].key = key}
  IN  IF hits = {} THEN NoList
      ELSE pairs[CHOOSE i \in hits : \A k \in hits : i <= k].list

\* THashList::FindObject(const char* ): the first object with that name.
FindObject(objs, name) ==
  LET hits == {i \in 1..Len(objs) : objs[i].name = name}
  IN  IF hits = {} THEN NullObj
      ELSE objs[CHOOSE i \in hits : \A k \in hits : i <= k]

\* MergeableCollection::Map(): creates the map on first use.
Map(w, s) ==
  IF w.fMap[s].isNull
  THEN [w EXCEPT !.fMap[s] = [isNull |-> FALSE, pairs |-> << >>]]
  ELSE w

\* A log that records a message without counting its occurrences.
BumpOnce(msgs, msg) ==
  IF msg \in DOMAIN msgs THEN [msgs EXCEPT ![msg] = 1]
  ELSE msgs @@ (msg :> 1)

\* fMessages[msg]++
Bump(msgs, msg) ==
  IF msg \in DOMAIN msgs THEN [msgs EXCEPT ![msg] = @ + 1]
  ELSE msgs @@ (msg :> 1)

\* Operations return [w, ret]: the new state and the returned value.
internalObject(w, s, identifier, objectName) ==
  IF w.fMap[s].isNull THEN [w |-> w, ret |-> NullObj]
  ELSE LET hlist == GetValue(w.fMap[s].pairs, identifier)
       IN  IF hlist = NoList
           THEN [w |-> [w EXCEPT !.fMessages[s] =
                          Bump(@, <<"hashlist", identifier>>)],
                 ret |-> NullObj]
           ELSE LET obj == FindObject(w.lists[hlist].objs, objectName)
                IN  IF obj = NullObj
                    THEN [w |-> [w EXCEPT !.fMessages[s] =
                                   Bump(@, <<"objectName", objectName, identifier>>)],
                          ret |-> NullObj]
                    ELSE [w |-> w, ret |-> obj]

\* getObject(identifier, objectName)
getObject2(w, s, identifier, objectName) ==
  LET a == IF identifier = << >> THEN identifier
           ELSE IF BeginsWith(identifier, <<Sep>>) THEN identifier
                ELSE <<Sep>> \o identifier
      b == IF a = << >> THEN a
           ELSE IF EndsWith(a, <<Sep>>) THEN a ELSE a \o <<Sep>>
  IN  internalObject(w, s, b, objectName)

\* getObject(fullIdentifier)
getObject(w, s, fullIdentifier) ==
  IF CountChar(fullIdentifier, Sep) = 0
  THEN getObject2(w, s, << >>, fullIdentifier)
  ELSE getObject2(w, s, getIdentifier(fullIdentifier), getObjectName(fullIdentifier))

\* An adoption that reports success and leaves the object out of the collection.
internalAdoptNoAddLast(w, s, identifier, obj) ==
  IF obj = NullObj THEN [w |-> w, ret |-> FALSE]
  ELSE LET w1 == Map(w, s)
           found == GetValue(w1.fMap[s].pairs, identifier)
           hlist == IF found = NoList THEN w1.nextList ELSE found
           w2 == IF found # NoList THEN w1
                 ELSE [w1 EXCEPT
                         !.lists = @ @@ (hlist :> [name |-> identifier, objs |-> << >>]),
                         !.nextList = @ + 1,
                         !.fMap[s].pairs = Append(@, [key |-> identifier, list |-> hlist])]
           existingObj == FindObject(w2.lists[hlist].objs, obj.name)
       IN  IF existingObj # NullObj THEN [w |-> w2, ret |-> FALSE]
           ELSE [w |-> w2, ret |-> TRUE]

\* An adoption that does not look for an object of the same name.
internalAdoptNoFind(w, s, identifier, obj) ==
  IF obj = NullObj THEN [w |-> w, ret |-> FALSE]
  ELSE LET w1 == Map(w, s)
           found == GetValue(w1.fMap[s].pairs, identifier)
           hlist == IF found = NoList THEN w1.nextList ELSE found
           w2 == IF found # NoList THEN w1
                 ELSE [w1 EXCEPT
                         !.lists = @ @@ (hlist :> [name |-> identifier, objs |-> << >>]),
                         !.nextList = @ + 1,
                         !.fMap[s].pairs = Append(@, [key |-> identifier, list |-> hlist])]
       IN  [w |-> [w2 EXCEPT !.lists[hlist].objs = Append(@, obj)], ret |-> TRUE]

internalAdopt(w, s, identifier, obj) ==
  IF obj = NullObj THEN [w |-> w, ret |-> FALSE]
  ELSE LET w1 == Map(w, s)
           found == GetValue(w1.fMap[s].pairs, identifier)
           hlist == IF found = NoList THEN w1.nextList ELSE found
           w2 == IF found # NoList THEN w1
                 ELSE [w1 EXCEPT
                         !.lists = @ @@ (hlist :> [name |-> identifier, objs |-> << >>]),
                         !.nextList = @ + 1,
                         !.fMap[s].pairs = Append(@, [key |-> identifier, list |-> hlist])]
           existingObj == FindObject(w2.lists[hlist].objs, obj.name)
       IN  IF existingObj # NullObj THEN [w |-> w2, ret |-> FALSE]
           ELSE [w |-> [w2 EXCEPT !.lists[hlist].objs = Append(@, obj)],
                 ret |-> TRUE]

\* adopt(identifier, obj)
adopt(w, s, identifier, obj) ==
  internalAdopt(w, s, correctIdentifier(identifier), obj)

\* adopt(obj): at top level, with no key
adoptTop(w, s, obj) == internalAdopt(w, s, << >>, obj)

numberOfKeys(w, s) == IF w.fMap[s].isNull THEN 0 ELSE Len(w.fMap[s].pairs)


\* numberOfObjects(): the iterator walks the keys of the map and, for each key,
\* the collection GetValue gives for that key text
\* (MergeableCollectionIterator::Next).
RECURSIVE CountFrom(_, _, _)
CountFrom(w, pairs, i) ==
  IF i > Len(pairs) THEN 0
  ELSE Len(w.lists[GetValue(pairs, pairs[i].key)].objs) + CountFrom(w, pairs, i + 1)

numberOfObjects(w, s) ==
  IF w.fMap[s].isNull THEN 0 ELSE CountFrom(w, w.fMap[s].pairs, 1)

\* THashList::Remove(TObject* ): by address.
RemoveObj(objs, obj) == SelectSeq(objs, LAMBDA o : o.id # obj.id)

\* A remove that deletes the entry of a collection it has emptied.
removeWithEmptyEntry(w, s, fullIdentifier) ==
  LET identifier == getIdentifier(fullIdentifier)
      w1 == Map(w, s)
      hlist == GetValue(w1.fMap[s].pairs, identifier)
  IN  IF hlist = NoList THEN [w |-> w1, ret |-> NullObj]
      ELSE LET g == getObject(w1, s, fullIdentifier)
           IN  IF g.ret = NullObj THEN [w |-> g.w, ret |-> NullObj]
               ELSE IF \A i \in 1..Len(g.w.lists[hlist].objs) :
                          g.w.lists[hlist].objs[i].id # g.ret.id
                    THEN [w |-> g.w, ret |-> NullObj]
                    ELSE [w |-> [g.w EXCEPT
                                   !.lists[hlist].objs = RemoveObj(@, g.ret),
                                   !.fMap[s].pairs =
                                     IF Len(g.w.lists[hlist].objs) = 1
                                     THEN SelectSeq(@, LAMBDA pr : pr.list # hlist)
                                     ELSE @],
                          ret |-> g.ret]

remove(w, s, fullIdentifier) ==
  LET identifier == getIdentifier(fullIdentifier)
      w1 == Map(w, s)
      hlist == GetValue(w1.fMap[s].pairs, identifier)
  IN  IF hlist = NoList THEN [w |-> w1, ret |-> NullObj]
      ELSE LET g == getObject(w1, s, fullIdentifier)
           IN  IF g.ret = NullObj THEN [w |-> g.w, ret |-> NullObj]
               ELSE IF \A i \in 1..Len(g.w.lists[hlist].objs) :
                          g.w.lists[hlist].objs[i].id # g.ret.id
                    THEN [w |-> g.w, ret |-> NullObj]
                    ELSE [w |-> [g.w EXCEPT !.lists[hlist].objs = RemoveObj(@, g.ret)],
                          ret |-> g.ret]

\* prune(identifier): TMap::DeleteEntry on every key beginning with identifier;
\* the map owns keys and values, so the collections are deleted with them.
prune(w, s, identifier) ==
  LET w1 == Map(w, s)
      pairs == w1.fMap[s].pairs
      del == {i \in 1..Len(pairs) : BeginsWith(pairs[i].key, identifier)}
      dead == {pairs[i].list : i \in del}
  IN  [w |-> [w1 EXCEPT
                !.fMap[s].pairs = SelectSeq(pairs, LAMBDA p : ~BeginsWith(p.key, identifier)),
                !.lists = [l \in (DOMAIN w1.lists) \ dead |-> w1.lists[l]]],
       ret |-> Cardinality(del)]

\* The loop of attach: every key of mc is added to the map of s, prefixed.
RECURSIVE AttachFrom(_, _, _, _, _)
AttachFrom(w, s, mcPairs, identifier, i) ==
  IF i > Len(mcPairs) THEN w
  ELSE LET hl == GetValue(mcPairs, mcPairs[i].key)
           newid == ReplaceAll(<<Sep>> \o identifier \o mcPairs[i].key)
       IN  AttachFrom([w EXCEPT !.fMap[s].pairs = Append(@, [key |-> newid, list |-> hl])],
                      s, mcPairs, identifier, i + 1)

\* An attach that prunes the existing entries before it looks at its flag.
attachPruneBeforeFlag(w, s, mc, identifier, pruneFirstIfAlreadyExists) ==
  LET w1 == Map(w, s)
      hlist == GetValue(w1.fMap[s].pairs, identifier)
      pr == prune(w1, s, identifier)
      w2 == IF hlist # NoList THEN pr.w ELSE w1
  IN  IF hlist # NoList /\ ~pruneFirstIfAlreadyExists THEN [w |-> pr.w, ret |-> FALSE]
      ELSE IF hlist # NoList /\ pr.ret = 0 THEN [w |-> pr.w, ret |-> FALSE]
      ELSE [w |-> AttachFrom(w2, s, w2.fMap[mc].pairs, identifier, 1), ret |-> TRUE]

attach(w, s, mc, identifier, pruneFirstIfAlreadyExists) ==
  LET w1 == Map(w, s)
      hlist == GetValue(w1.fMap[s].pairs, identifier)
      pr == prune(w1, s, identifier)
      w2 == IF hlist # NoList THEN pr.w ELSE w1
  IN  IF hlist # NoList /\ ~pruneFirstIfAlreadyExists THEN [w |-> w1, ret |-> FALSE]
      ELSE IF hlist # NoList /\ pr.ret = 0 THEN [w |-> pr.w, ret |-> FALSE]
      ELSE [w |-> AttachFrom(w2, s, w2.fMap[mc].pairs, identifier, 1), ret |-> TRUE]

(***************************************************************************)
(* pruneEmptyObjects and removeByType.                                     *)
(***************************************************************************)
\* IsEmptyObject(obj): a TH1 with no entry; val stands for the entries.
IsEmptyObject(obj) == obj.cls = "TH1" /\ obj.val = 0

\* The full identifiers of the empty objects of one collection.
RECURSIVE EmptyIn(_, _, _)
EmptyIn(identifier, objs, k) ==
  IF k > Len(objs) THEN << >>
  ELSE (IF IsEmptyObject(objs[k]) THEN <<identifier \o objs[k].name>> ELSE << >>)
         \o EmptyIn(identifier, objs, k + 1)

\* toBeRemoved: the first loop of pruneEmptyObjects over the keys of the map.
RECURSIVE ToBeRemoved(_, _, _)
ToBeRemoved(w, pairs, i) ==
  IF i > Len(pairs) THEN << >>
  ELSE EmptyIn(pairs[i].key, w.lists[GetValue(pairs, pairs[i].key)].objs, 1)
         \o ToBeRemoved(w, pairs, i + 1)

\* The second loop: remove(key) for each text of toBeRemoved; what remove
\* returns is dropped.
RECURSIVE RemoveAllOf(_, _, _, _)
RemoveAllOf(w, s, tbr, n) ==
  IF n > Len(tbr) THEN w
  ELSE RemoveAllOf(remove(w, s, tbr[n]).w, s, tbr, n + 1)

\* pruneEmptyObjects() returns the new state (it is void); no object is deleted.
pruneEmptyObjects(w, s) ==
  LET w1 == Map(w, s)
  IN  RemoveAllOf(w1, s, ToBeRemoved(w1, w1.fMap[s].pairs, 1), 1)

\* The loop of removeByType over the keys; acc is [w, n]: n is nremoved.
RECURSIVE RemoveByTypeFrom(_, _, _, _)
RemoveByTypeFrom(acc, pairs, typeName, i) ==
  IF i > Len(pairs) THEN acc
  ELSE LET list == GetValue(pairs, pairs[i].key)
           objs == acc.w.lists[list].objs
           kept == SelectSeq(objs, LAMBDA o : o.cls # typeName)
       IN  RemoveByTypeFrom([w |-> [acc.w EXCEPT !.lists[list].objs = kept],
                             n |-> acc.n + Len(objs) - Len(kept)],
                            pairs, typeName, i + 1)

\* removeByType(typeName) returns [w, ret]: ret is the number of objects taken
\* out of their collections; none of them is deleted.
removeByType(w, s, typeName) ==
  LET w1 == Map(w, s)
      r == RemoveByTypeFrom([w |-> w1, n |-> 0], w1.fMap[s].pairs, typeName, 1)
  IN  [w |-> r.w, ret |-> r.n]

(***************************************************************************)
(* Merge.                                                                  *)
(***************************************************************************)
\* TObject::IsA(): the TClass of the object's concrete class.
IsA(obj) == obj.cls

\* TClass::Class(): the static member of TClass, the dictionary of TClass
\* itself, whatever TClass it is called through.
Class(tclass) == "TClass"

\* IsA()->GetMethodWithPrototype("Merge", "TCollection*")
HasMerge(tclass) == tclass \in {"TH1", "TGraph"}

\* The payload's own Merge(TCollection* ), called through TMethodCall: an
\* object of the same class is absorbed; what the payload does with an object
\* of another class is not defined by this repository: absorb says whether it
\* adds it or leaves itself unchanged.
PayloadMerge(baseObject, objToAdd, absorb) ==
  IF IsA(baseObject) = IsA(objToAdd) \/ absorb
  THEN baseObject.val + objToAdd.val
  ELSE baseObject.val

\* A MergeObject that never calls the payload's Merge.
MergeObjectNoCall(baseObject, objToAdd, absorb) ==
  IF Class(IsA(baseObject)) # Class(IsA(objToAdd))
  THEN [ok |-> FALSE, val |-> baseObject.val]
  ELSE IF ~HasMerge(IsA(baseObject))
       THEN [ok |-> FALSE, val |-> baseObject.val]
       ELSE [ok |-> TRUE, val |-> baseObject.val]

\* MergeObject returns [ok, val]: its result and the value of baseObject after.
MergeObject(baseObject, objToAdd, absorb) ==
  IF Class(IsA(baseObject)) # Class(IsA(objToAdd))
  THEN [ok |-> FALSE, val |-> baseObject.val]
  ELSE IF ~HasMerge(IsA(baseObject))
       THEN [ok |-> FALSE, val |-> baseObject.val]
       ELSE [ok |-> TRUE, val |-> PayloadMerge(baseObject, objToAdd, absorb)]

\* The object at address id takes the value val.
SetVal(ls, id, val) ==
  [l \in DOMAIN ls |->
     [name |-> ls[l].name,
      objs |-> [i \in 1..Len(ls[l].objs) |->
                  IF ls[l].objs[i].id = id
                  THEN [ls[l].objs[i] EXCEPT !.val = val]
                  ELSE ls[l].objs[i]]]]

\* A Clone that makes a new object of the same name and class, without the value.
CloneBare(w, obj) == [obj EXCEPT !.id = w.nextObj, !.val = 0]

\* TObject::Clone(): a new object of the same name, class and value.
Clone(w, obj) == [obj EXCEPT !.id = w.nextObj]

\* A loop body that adopts the object of the source itself, not a clone.
MergeOneAdoptingSource(acc, s, identifier, obj, absorb) ==
  LET g == getObject(acc.w, s, identifier \o obj.name)
      thisObject == g.ret
  IN  IF thisObject = NullObj
      THEN LET a == adopt(g.w, s, identifier, obj)
           IN  [w |-> a.w,
                log |-> Append(acc.log, [key |-> identifier, obj |-> obj, merged |-> FALSE,
                                         ok |-> a.ret, base |-> NullObj, val |-> obj.val])]
      ELSE LET m == MergeObject(thisObject, obj, absorb)
           IN  [w |-> [g.w EXCEPT !.lists = SetVal(@, thisObject.id, m.val)],
                log |-> Append(acc.log, [key |-> identifier, obj |-> obj, merged |-> TRUE,
                                         ok |-> m.ok, base |-> thisObject, val |-> m.val])]

\* The body of Merge's innermost loop for one object of a source; acc is
\* [w, log], log the sequence of what was done with each object.
MergeOne(acc, s, identifier, obj, absorb) ==
  LET g == getObject(acc.w, s, identifier \o obj.name)
      thisObject == g.ret
  IN  IF thisObject = NullObj
      THEN LET a == adopt([g.w EXCEPT !.nextObj = @ + 1], s, identifier, Clone(g.w, obj))
           IN  [w |-> a.w,
                log |-> Append(acc.log, [key |-> identifier, obj |-> obj, merged |-> FALSE,
                                         ok |-> a.ret, base |-> NullObj, val |-> obj.val])]
      ELSE LET m == MergeObject(thisObject, obj, absorb)
           IN  [w |-> [g.w EXCEPT !.lists = SetVal(@, thisObject.id, m.val)],
                log |-> Append(acc.log, [key |-> identifier, obj |-> obj, merged |-> TRUE,
                                         ok |-> m.ok, base |-> thisObject, val |-> m.val])]

RECURSIVE MergeObjects(_, _, _, _, _, _)
MergeObjects(acc, s, identifier, objs, j, absorb) ==
  IF j > Len(objs) THEN acc
  ELSE MergeObjects(MergeOne(acc, s, identifier, objs[j], absorb),
                    s, identifier, objs, j + 1, absorb)

RECURSIVE MergeIdentifiers(_, _, _, _, _)
MergeIdentifiers(acc, s, mcPairs, i, absorb) ==
  IF i > Len(mcPairs) THEN acc
  ELSE LET otherList == GetValue(mcPairs, mcPairs[i].key)
       IN  MergeIdentifiers(
             MergeObjects(acc, s, mcPairs[i].key, acc.w.lists[otherList].objs, 1, absorb),
             s, mcPairs, i + 1, absorb)

\* A loop on the collections of the list that starts from its end.
RECURSIVE MergeCollectionsBackwards(_, _, _, _, _)
MergeCollectionsBackwards(acc, s, list, k, absorb) ==
  IF k > Len(list) THEN acc
  ELSE IF list[Len(list) + 1 - k] \notin Stores
       THEN MergeCollectionsBackwards(acc, s, list, k + 1, absorb)
  ELSE LET r == MergeIdentifiers([w |-> acc.w, log |-> acc.log], s,
                                 acc.w.fMap[list[Len(list) + 1 - k]].pairs, 1, absorb)
       IN  MergeCollectionsBackwards([w |-> r.w, log |-> r.log, count |-> acc.count + 1],
                                     s, list, k + 1, absorb)

\* The loop on the collections of the list; acc is [w, log, count]. An object
\* of the list that is not a MergeableCollection (dynamic_cast gives null) is
\* skipped and not counted.
RECURSIVE MergeCollections(_, _, _, _, _)
MergeCollections(acc, s, list, k, absorb) ==
  IF k > Len(list) THEN acc
  ELSE IF list[k] \notin Stores THEN MergeCollections(acc, s, list, k + 1, absorb)
  ELSE LET r == MergeIdentifiers([w |-> acc.w, log |-> acc.log], s,
                                 acc.w.fMap[list[k]].pairs, 1, absorb)
       IN  MergeCollections([w |-> r.w, log |-> r.log, count |-> acc.count + 1],
                            s, list, k + 1, absorb)

\* A Merge that does not count the collection it is called on.
MergeCountingSourcesOnly(w, s, list, absorb) ==
  IF list = << >> THEN [w |-> w, ret |-> 1, log |-> << >>]
  ELSE LET r == MergeCollections([w |-> w, log |-> << >>, count |-> 0], s, list, 1, absorb)
       IN  [w |-> r.w, ret |-> r.count, log |-> r.log]

\* Merge(list) returns [w, ret, log].
Merge(w, s, list, absorb) ==
  IF list = << >> THEN [w |-> w, ret |-> 1, log |-> << >>]
  ELSE LET r == MergeCollections([w |-> w, log |-> << >>, count |-> 0], s, list, 1, absorb)
       IN  [w |-> r.w, ret |-> r.count + 1, log |-> r.log]

(***************************************************************************)
(* getSum.                                                                 *)
(***************************************************************************)
\* keyMatrix: the groups of the pattern, each the sequence of its alternatives.
KeyMatrix(idPattern) ==
  LET keyList == Tokenize(idPattern, Sep)
  IN  [n \in 1..Len(keyList) |-> Tokenize(keyList[n], ",")]

\* currKey == subKeyString for one of the alternatives of a group.
InGroup(currKey, subKeyList) == \E n \in 1..Len(subKeyList) : currKey = subKeyList[n]

\* listMatchPattern: every key group but the last holds the key of its level.
ListMatchPattern(identifier, keyMatrix) ==
  \A ikey \in 0..(Len(keyMatrix) - 2) :
    InGroup(getKey(identifier, ikey, FALSE), keyMatrix[ikey + 1])

\* The loop on the objects of a list; acc is [w, sum]: sum is sumObject.
RECURSIVE SumObjects(_, _, _, _, _)
SumObjects(acc, objs, keyMatrix, k, absorb) ==
  IF k > Len(objs) THEN acc
  ELSE IF Len(keyMatrix) = 0 \/ ~InGroup(objs[k].name, keyMatrix[Len(keyMatrix)])
       THEN SumObjects(acc, objs, keyMatrix, k + 1, absorb)
       ELSE IF acc.sum = NullObj
            THEN SumObjects([w |-> [acc.w EXCEPT !.nextObj = @ + 1],
                             sum |-> Clone(acc.w, objs[k])],
                            objs, keyMatrix, k + 1, absorb)
            ELSE SumObjects([w |-> acc.w,
                             sum |-> [acc.sum EXCEPT
                                        !.val = MergeObject(acc.sum, objs[k], absorb).val]],
                            objs, keyMatrix, k + 1, absorb)

\* The loop on the identifiers of the map.
RECURSIVE SumIdentifiers(_, _, _, _, _)
SumIdentifiers(acc, pairs, keyMatrix, i, absorb) ==
  IF i > Len(pairs) THEN acc
  ELSE IF ~ListMatchPattern(pairs[i].key, keyMatrix)
       THEN SumIdentifiers(acc, pairs, keyMatrix, i + 1, absorb)
       ELSE SumIdentifiers(
              SumObjects(acc, acc.w.lists[GetValue(pairs, pairs[i].key)].objs,
                         keyMatrix, 1, absorb),
              pairs, keyMatrix, i + 1, absorb)

\* getSum(idPattern) returns [w, ret]: ret is the new object, or NullObj.
getSum(w, s, idPattern, absorb) ==
  LET w1 == Map(w, s)
      r == SumIdentifiers([w |-> w1, sum |-> NullObj], w1.fMap[s].pairs,
                          KeyMatrix(idPattern), 1, absorb)
  IN  [w |-> r.w, ret |-> r.sum]

(***************************************************************************)
(* project.                                                                *)
(***************************************************************************)
\* The loop on the objects of list: each is cloned and adopted by the new
\* collection r under newkey.
RECURSIVE ProjectObjects(_, _, _, _, _)
ProjectObjects(w, r, objs, newkey, k) ==
  IF k > Len(objs) THEN w
  ELSE LET clone == Clone(w, objs[k])
           a == internalAdopt([w EXCEPT !.nextObj = @ + 1], r, newkey, clone)
       IN  ProjectObjects(a.w, r, objs, newkey, k + 1)

\* The loop on the keys of s.
RECURSIVE ProjectFrom(_, _, _, _, _, _)
ProjectFrom(w, s, r, pairs, identifier, i) ==
  IF i > Len(pairs) THEN w
  ELSE LET currIdentifier == pairs[i].key
           list == GetValue(pairs, identifier)
           stripped == RemoveAll(currIdentifier, identifier)
           newkey == IF stripped = <<Sep>> THEN << >> ELSE stripped
       IN  IF ~Contains(currIdentifier, identifier) \/ list = NoList
           THEN ProjectFrom(w, s, r, pairs, identifier, i + 1)
           ELSE ProjectFrom(ProjectObjects(w, r, w.lists[list].objs, newkey, 1),
                            s, r, pairs, identifier, i + 1)

\* project(identifier) returns [w, ret]: ret is the new collection, made in
\* the slot r of the stores, or 0 for the null pointer.
project(w, s, r, identifier) ==
  IF w.fMap[s].isNull THEN [w |-> w, ret |-> 0]
  ELSE LET fresh == [w EXCEPT !.fMap[r] = NullMap, !.fMessages[r] = << >>]
       IN  [w |-> ProjectFrom(fresh, s, r, fresh.fMap[s].pairs, identifier, 1),
            ret |-> r]

(***************************************************************************)
(* Proxy.                                                                  *)
(***************************************************************************)
\* A MergeableCollectionProxy is [oc, list]: its collection (fOC) and the
\* address of its THashList (fList); NoProxy is the null pointer.
NoProxy == [oc |-> 0, list |-> NoList]

createProxy(w, s, identifier, createIfNeeded) ==
  LET sidentifier == correctIdentifier(identifier)
      w1 == Map(w, s)
      list == GetValue(w1.fMap[s].pairs, sidentifier)
  IN  IF list # NoList THEN [w |-> w1, ret |-> [oc |-> s, list |-> list]]
      ELSE IF ~createIfNeeded THEN [w |-> w1, ret |-> NoProxy]
      ELSE [w |-> [w1 EXCEPT
                     !.lists = @ @@ (w1.nextList :> [name |-> sidentifier, objs |-> << >>]),
                     !.nextList = @ + 1,
                     !.fMap[s].pairs = Append(@, [key |-> sidentifier, list |-> w1.nextList])],
            ret |-> [oc |-> s, list |-> w1.nextList]]

\* MergeableCollectionProxy::adopt(obj)
proxyAdopt(w, p, obj) == adopt(w, p.oc, w.lists[p.list].name, obj)

\* MergeableCollectionProxy::adopt(identifier, obj)
proxyAdoptAt(w, p, identifier, obj) ==
  adopt(w, p.oc, w.lists[p.list].name \o identifier, obj)

\* MergeableCollectionProxy::getObject(objectName)
proxyGetObject(w, p, objectName) == FindObject(w.lists[p.list].objs, objectName)

\* clearMessages(): fMessages.clear()
clearMessages(w, s) == [w EXCEPT !.fMessages[s] = << >>]


(***************************************************************************)
(* MergeableCollectionIterator.                                            *)
(*                                                                         *)
(* A cursor (a TIterator* member) is [null, pos, list, freed]: pos is the   *)
(* rank of the element its Next gives next, list the THashList it walks    *)
(* (0 for the cursor of the map), freed the number of times it was         *)
(* deleted.  A cursor that is not null with freed > 0 is a dangling        *)
(* pointer.  The iterator is [s, mapIt, hl, ...]: its collection           *)
(* (fkMergeableCollection, 0 when there is no iterator), fMapIterator and  *)
(* fHashListIterator, and what was observed of it: out, the addresses Next *)
(* returned since the creation or the last Reset; ends, the number of      *)
(* times Next returned null since then; late, whether Next returned an     *)
(* object after a null; resets; crashed; twice, whether a cursor was       *)
(* deleted twice; deleted; nexts, the calls of Next.                       *)
(***************************************************************************)
NoCursor == [null |-> TRUE, pos |-> 0, list |-> NoList, freed |-> 0]

NoIter == [s |-> 0, mapIt |-> NoCursor, hl |-> NoCursor, out |-> << >>, ends |-> 0,
           late |-> FALSE, resets |-> 0, crashed |-> FALSE, twice |-> FALSE,
           deleted |-> FALSE, nexts |-> 0]

\* new MergeableCollectionIterator(this, direction)
NewIterator(s) == [NoIter EXCEPT !.s = s]

\* MergeableCollectionIterator::Next returns [it, ret].
RECURSIVE IterNext(_, _)
IterNext(w, it) ==
  LET pairs == w.fMap[it.s].pairs
  IN  IF it.hl.null
      THEN LET m == IF it.mapIt.null
                    THEN [null |-> FALSE, pos |-> 1, list |-> NoList, freed |-> 0]
                    ELSE it.mapIt
           IN  IF m.pos > Len(pairs)
               THEN [it |-> [it EXCEPT !.mapIt = m], ret |-> NullObj]
               ELSE LET list == GetValue(pairs, pairs[m.pos].key)
                    IN  IterNext(w, [it EXCEPT
                                       !.mapIt = [m EXCEPT !.pos = @ + 1],
                                       !.hl = [null |-> FALSE, pos |-> 1,
                                               list |-> list, freed |-> 0]])
      ELSE LET objs == w.lists[it.hl.list].objs
           IN  IF it.hl.pos <= Len(objs)
               THEN [it |-> [it EXCEPT !.hl.pos = @ + 1], ret |-> objs[it.hl.pos]]
               ELSE IterNext(w, [it EXCEPT !.twice = @ \/ it.hl.freed > 0,
                                           !.hl = NoCursor])

\* delete of a cursor: the pointer keeps its value.
DeleteCursor(c) == IF c.null THEN c ELSE [c EXCEPT !.freed = @ + 1]

\* MergeableCollectionIterator::Reset
IterReset(it) ==
  [it EXCEPT !.hl = DeleteCursor(@), !.mapIt = DeleteCursor(@),
             !.twice = @ \/ (~it.hl.null /\ it.hl.freed > 0)
                         \/ (~it.mapIt.null /\ it.mapIt.freed > 0)]

\* The cursor the next call of Next goes through was deleted.
Dangling(it) ==
  \/ ~it.hl.null /\ it.hl.freed > 0
  \/ it.hl.null /\ ~it.mapIt.null /\ it.mapIt.freed > 0

(***************************************************************************)
(* The inputs the callers draw from.                                       *)
(***************************************************************************)
Names == {<<"h">>, <<"g">>}

\* The payloads a caller creates: [name, cls, val].
Payloads ==
  { [name |-> <<"h">>, cls |-> "TH1", val |-> 1],
    [name |-> <<"g">>, cls |-> "TH1", val |-> 1],
    [name |-> <<"h">>, cls |-> "TGraph", val |-> 2] }

\* Key texts given to adopt and createProxy, canonical or not: the root, a key
\* with no separator around it, a two-level key path.
KeyTexts == { <<"/">>, <<"A">>, <<"/", "A", "/", "B", "/">> }

\* Identifiers given to attach and prune.
Prefixes == { << >>, <<"/", "A", "/">>, <<"A">> }

\* The object a caller allocates for payload p: it gets the next address.
NewObj(p) == [id |-> nextObj, name |-> p.name, cls |-> p.cls, val |-> p.val]

\* Full identifiers given to getObject and remove on store s: every stored key
\* followed by a name, a root-level name and an identifier of an absent path.
FullIds(s) ==
  {fMap[s].pairs[i].key \o n : i \in 1..Len(fMap[s].pairs), n \in Names}
    \cup {<<"h">>, <<"/", "B", "/", "h">>}

\* A store handed over by attach is not used any more by the caller.
Live(s) == ~attached[s]

\* What the last operation was: its name, store, arguments, returned value,
\* Merge's log, and the state it started from.
NoOp == [op |-> "none", s |-> 0, text |-> << >>, obj |-> NullObj, flag |-> FALSE,
         list |-> << >>, ret |-> 0, log |-> << >>, pre |-> 0,
         segs |-> << >>, index |-> 0, out |-> << >>, freed |-> {}]

Init ==
  /\ fMap = [s \in Stores |-> NullMap]
  /\ fMessages = [s \in Stores |-> << >>]
  /\ lists = << >>
  /\ nextList = 1
  /\ nextObj = 1
  /\ attached = [s \in Stores |-> FALSE]
  /\ proxy = NoProxy
  /\ iter = NoIter
  /\ nops = 0
  /\ nprod = 0
  /\ last = NoOp

\* The state after an operation that ended in world w.
Becomes(w) ==
  /\ fMap' = w.fMap
  /\ fMessages' = w.fMessages
  /\ lists' = w.lists
  /\ nextList' = w.nextList
  /\ nextObj' = w.nextObj

Adopt(s, text, p) ==
  /\ Live(s)
  /\ LET obj == NewObj(p)
         r == adopt([World EXCEPT !.nextObj = @ + 1], s, text, obj)
     IN  /\ Becomes(r.w)
         /\ last' = [NoOp EXCEPT !.op = "adopt", !.s = s, !.text = correctIdentifier(text),
                                 !.obj = obj, !.ret = r.ret, !.pre = World]
  /\ UNCHANGED <<attached, proxy, iter>>

AdoptTop(s, p) ==
  /\ Live(s)
  /\ LET obj == NewObj(p)
         r == adoptTop([World EXCEPT !.nextObj = @ + 1], s, obj)
     IN  /\ Becomes(r.w)
         /\ last' = [NoOp EXCEPT !.op = "adopt", !.s = s, !.text = << >>,
                                 !.obj = obj, !.ret = r.ret, !.pre = World]
  /\ UNCHANGED <<attached, proxy, iter>>

AdoptNull(s, text) ==
  /\ Live(s)
  /\ LET r == adopt(World, s, text, NullObj)
     IN  /\ Becomes(r.w)
         /\ last' = [NoOp EXCEPT !.op = "adopt", !.s = s, !.text = correctIdentifier(text),
                                 !.obj = NullObj, !.ret = r.ret, !.pre = World]
  /\ UNCHANGED <<attached, proxy, iter>>

GetObject(s, full) ==
  /\ Live(s)
  /\ LET r == getObject(World, s, full)
     IN  /\ Becomes(r.w)
         /\ last' = [NoOp EXCEPT !.op = "get", !.s = s, !.text = full,
                                 !.ret = r.ret, !.pre = World]
  /\ UNCHANGED <<attached, proxy, iter>>

\* last.freed is the set of the objects the call deleted or handed to its
\* caller: pruneEmptyObjects drops what remove returns and its toBeRemoved list
\* owns the texts only; removeByType calls THashList::Remove and counts.
PruneEmptyObjects(s) ==
  /\ Live(s)
  /\ Becomes(pruneEmptyObjects(World, s))
  /\ last' = [NoOp EXCEPT !.op = "pruneEmptyObjects", !.s = s, !.pre = World,
                          !.freed = {}]
  /\ UNCHANGED <<attached, proxy, iter>>

RemoveByType(s, typeName) ==
  /\ Live(s)
  /\ LET r == removeByType(World, s, typeName)
     IN  /\ Becomes(r.w)
         /\ last' = [NoOp EXCEPT !.op = "removeByType", !.s = s, !.text = typeName,
                                 !.ret = r.ret, !.pre = World, !.freed = {}]
  /\ UNCHANGED <<attached, proxy, iter>>

\* getObject(identifier, objectName)
GetObject2(s, identifier, objectName) ==
  /\ Live(s)
  /\ LET r == getObject2(World, s, identifier, objectName)
     IN  /\ Becomes(r.w)
         /\ last' = [NoOp EXCEPT !.op = "get2", !.s = s, !.text = identifier,
                                 !.list = objectName, !.ret = r.ret, !.pre = World]
  /\ UNCHANGED <<attached, proxy, iter>>

Remove(s, full) ==
  /\ Live(s)
  /\ LET r == remove(World, s, full)
     IN  /\ Becomes(r.w)
         /\ last' = [NoOp EXCEPT !.op = "remove", !.s = s, !.text = full,
                                 !.ret = r.ret, !.pre = World]
  /\ UNCHANGED <<attached, proxy, iter>>

Prune(s, identifier) ==
  /\ Live(s)
  /\ LET r == prune(World, s, identifier)
     IN  /\ Becomes(r.w)
         /\ last' = [NoOp EXCEPT !.op = "prune", !.s = s, !.text = identifier,
                                 !.ret = r.ret, !.pre = World]
  /\ UNCHANGED <<attached, proxy, iter>>

Attach(s, mc, identifier, pruneFirst) ==
  /\ Live(s) /\ Live(mc) /\ s # mc
  /\ LET r == attach(World, s, mc, identifier, pruneFirst)
     IN  /\ Becomes(r.w)
         /\ attached' = [attached EXCEPT ![mc] = r.ret]
         /\ last' = [NoOp EXCEPT !.op = "attach", !.s = s, !.text = identifier,
                                 !.flag = pruneFirst, !.list = <<mc>>,
                                 !.ret = r.ret, !.pre = World]
  /\ UNCHANGED <<proxy, iter>>

DoMerge(s, list, absorb) ==
  /\ Live(s)
  /\ \A k \in 1..Len(list) : list[k] \in Stores => (Live(list[k]) /\ list[k] # s)
  /\ LET r == Merge(World, s, list, absorb)
     IN  /\ Becomes(r.w)
         /\ last' = [NoOp EXCEPT !.op = "merge", !.s = s, !.list = list, !.flag = absorb,
                                 !.ret = r.ret, !.log = r.log, !.pre = World]
  /\ UNCHANGED <<attached, proxy, iter>>

CreateProxy(s, text, createIfNeeded) ==
  /\ Live(s)
  /\ LET r == createProxy(World, s, text, createIfNeeded)
     IN  /\ Becomes(r.w)
         /\ proxy' = r.ret
         /\ last' = [NoOp EXCEPT !.op = "createProxy", !.s = s, !.text = text,
                                 !.flag = createIfNeeded, !.ret = r.ret, !.pre = World]
  /\ UNCHANGED <<attached, iter>>

Project(s, r, identifier) ==
  /\ Live(s) /\ s # r
  /\ LET res == project(World, s, r, identifier)
     IN  /\ Becomes(res.w)
         /\ last' = [NoOp EXCEPT !.op = "project", !.s = s, !.text = identifier,
                                 !.ret = res.ret, !.pre = World]
  /\ UNCHANGED <<attached, proxy, iter>>

GetSum(s, idPattern, absorb) ==
  /\ Live(s)
  /\ LET r == getSum(World, s, idPattern, absorb)
     IN  /\ Becomes(r.w)
         /\ last' = [NoOp EXCEPT !.op = "getSum", !.s = s, !.text = idPattern,
                                 !.ret = r.ret, !.pre = World]
  /\ UNCHANGED <<attached, proxy, iter>>

\* The proxy is used while its collection is alive.
ProxyAdopt(p) ==
  /\ proxy # NoProxy /\ Live(proxy.oc) /\ proxy.list \in DOMAIN lists
  /\ LET obj == NewObj(p)
         r == proxyAdopt([World EXCEPT !.nextObj = @ + 1], proxy, obj)
     IN  /\ Becomes(r.w)
         /\ last' = [NoOp EXCEPT !.op = "proxyAdopt", !.s = proxy.oc,
                                 !.text = correctIdentifier(lists[proxy.list].name),
                                 !.obj = obj, !.ret = r.ret, !.pre = World]
  /\ UNCHANGED <<attached, proxy, iter>>

ProxyAdoptAt(identifier, p) ==
  /\ proxy # NoProxy /\ Live(proxy.oc) /\ proxy.list \in DOMAIN lists
  /\ LET obj == NewObj(p)
         r == proxyAdoptAt([World EXCEPT !.nextObj = @ + 1], proxy, identifier, obj)
     IN  /\ Becomes(r.w)
         /\ last' = [NoOp EXCEPT !.op = "proxyAdoptAt", !.s = proxy.oc, !.text = identifier,
                                 !.obj = obj, !.ret = r.ret, !.pre = World]
  /\ UNCHANGED <<attached, proxy, iter>>

ProxyGetObject(objectName) ==
  /\ proxy # NoProxy /\ Live(proxy.oc) /\ proxy.list \in DOMAIN lists
  /\ Becomes(World)
  /\ last' = [NoOp EXCEPT !.op = "proxyGet", !.s = proxy.oc, !.text = objectName,
                          !.ret = proxyGetObject(World, proxy, objectName), !.pre = World]
  /\ UNCHANGED <<attached, proxy, iter>>

ClearMessages(s) ==
  /\ Live(s) /\ fMessages[s] # << >>
  /\ Becomes(clearMessages(World, s))
  /\ last' = [NoOp EXCEPT !.op = "clearMessages", !.s = s, !.pre = World]
  /\ UNCHANGED <<attached, proxy, iter>>

\* An operation on the collection under study (store 1) is counted in nops.
\* The producer of another collection (store s > 1) fills it before that
\* collection is merged or attached, within its own budget.
Turn(s) ==
  IF s = 1
  THEN nops < MaxOps /\ nops' = nops + 1 /\ UNCHANGED nprod
  ELSE nops = 0 /\ nprod < MaxProducerOps /\ nprod' = nprod + 1 /\ UNCHANGED nops

\* Store 1 is the collection under study; store 2 is filled by its producer
\* and then merged or attached into store 1.
Next ==
  \/ \E s \in {1, 2}, text \in KeyTexts, p \in Payloads : Turn(s) /\ Adopt(s, text, p)
  \/ \E s \in {1, 2}, p \in Payloads : Turn(s) /\ AdoptTop(s, p)
  \/ Turn(1) /\ AdoptNull(1, <<"A">>)
  \/ \E full \in FullIds(1) : Turn(1) /\ GetObject(1, full)
  \/ \E full \in FullIds(1) : Turn(1) /\ Remove(1, full)
  \/ \E identifier \in Prefixes : Turn(1) /\ Prune(1, identifier)
  \/ \E identifier \in Prefixes, pruneFirst \in BOOLEAN :
       Turn(1) /\ Attach(1, 2, identifier, pruneFirst)
  \/ \E list \in {<< >>, <<2>>}, absorb \in BOOLEAN : Turn(1) /\ DoMerge(1, list, absorb)
  \/ \E text \in KeyTexts, createIfNeeded \in BOOLEAN :
       Turn(1) /\ CreateProxy(1, text, createIfNeeded)
  \/ \E p \in Payloads : Turn(1) /\ ProxyAdopt(p)
  \/ Turn(1) /\ ClearMessages(1)

Spec == Init /\ [][Next]_vars

(***************************************************************************)
(* Merging: stores 2 and 3 are filled by their producers, store 1 by its   *)
(* own caller, and then store 1 merges them.                               *)
(***************************************************************************)
\* Adopts before the first merge, over all the stores.
MaxFillOps == 3

\* Calls of Merge on store 1.
MaxMerges == 2

\* Payloads with a Merge: counters of two classes and several values.
Counters ==
  { [name |-> <<"h">>, cls |-> "TH1", val |-> 5],
    [name |-> <<"h">>, cls |-> "TH1", val |-> 7],
    [name |-> <<"g">>, cls |-> "TH1", val |-> 1],
    [name |-> <<"h">>, cls |-> "TGraph", val |-> 2] }

\* The lists of collections given to Merge.
MergeLists == { <<2, 3>>, <<3, 2>>, <<2>> }

\* The stores are independent until the merge: they are filled one after the
\* other, store 1 first.
FillTurn(s) ==
  /\ last.op \in {"none", "adopt"} /\ last.s <= s
  /\ nprod < MaxFillOps /\ nprod' = nprod + 1 /\ UNCHANGED nops

MergeTurn == nops < MaxMerges /\ nops' = nops + 1 /\ UNCHANGED nprod

NextMerge ==
  \/ \E s \in Stores, p \in Counters : FillTurn(s) /\ Adopt(s, <<"A">>, p)
  \/ \E s \in Stores, p \in Counters : FillTurn(s) /\ AdoptTop(s, p)
  \/ \E list \in MergeLists, absorb \in BOOLEAN : MergeTurn /\ DoMerge(1, list, absorb)

SpecMerge == Init /\ [][NextMerge]_vars


(***************************************************************************)
(* Folding: the stores are filled at one key, then store 1 merges lists of *)
(* every length, one of them holding an object that is not a collection.   *)
(***************************************************************************)
\* A TObject of the list that is not a MergeableCollection.
Foreign == 0

\* The lists given to Merge.
FoldLists == { << >>, <<2>>, <<2, 3>>, <<3, 2>>, <<2, 2>>, <<Foreign, 2>> }

NextFold ==
  \/ \E s \in Stores, p \in Counters : FillTurn(s) /\ Adopt(s, <<"A">>, p)
  \/ \E list \in FoldLists, absorb \in BOOLEAN : MergeTurn /\ DoMerge(1, list, absorb)

SpecFold == Init /\ [][NextFold]_vars

(***************************************************************************)
(* Projecting: store 1 is filled, then projected into a new collection     *)
(* made in slot 3.                                                         *)
(***************************************************************************)
\* Identifiers given to project.
ProjectIds == { << >>, <<"/", "A", "/">>, <<"/", "A", "/", "B", "/">> }

NextProject ==
  \/ \E text \in KeyTexts, p \in Payloads : Turn(1) /\ Adopt(1, text, p)
  \/ \E p \in Payloads : Turn(1) /\ AdoptTop(1, p)
  \/ \E identifier \in ProjectIds : Turn(1) /\ Project(1, 3, identifier)

SpecProject == Init /\ [][NextProject]_vars

(***************************************************************************)
(* Iterating: store 1 is filled (and store 2 attached to it), then an      *)
(* iterator is created on it and, from then on, only the iterator is used. *)
(***************************************************************************)
\* Calls of Next on the iterator.
MaxNexts == 5

\* Calls of Reset on the iterator.
MaxResets == 2

\* What a call through a deleted cursor can do: read the freed cursor as it
\* was left, or end the program.
Outcomes == {"stale", "crash"}

\* createIterator(): a null pointer when there is no map.
CreateIterator(s) ==
  /\ Live(s) /\ iter.s = 0 /\ ~fMap[s].isNull
  /\ iter' = NewIterator(s)
  /\ UNCHANGED <<fMap, fMessages, lists, nextList, nextObj, attached, proxy, nops, nprod, last>>

CallNext(outcome) ==
  /\ iter.s # 0 /\ ~iter.deleted /\ ~iter.crashed /\ iter.nexts < MaxNexts
  /\ (outcome = "crash" => Dangling(iter))
  /\ iter' = IF outcome = "crash"
             THEN [iter EXCEPT !.crashed = TRUE, !.nexts = @ + 1]
             ELSE LET r == IterNext(World, iter)
                  IN  [r.it EXCEPT
                         !.nexts = @ + 1,
                         !.out = IF r.ret = NullObj THEN @ ELSE Append(@, r.ret.id),
                         !.ends = IF r.ret = NullObj THEN @ + 1 ELSE @,
                         !.late = @ \/ (r.ret # NullObj /\ iter.ends > 0)]
  /\ UNCHANGED <<fMap, fMessages, lists, nextList, nextObj, attached, proxy, nops, nprod, last>>

CallReset ==
  /\ iter.s # 0 /\ ~iter.deleted /\ ~iter.crashed /\ iter.resets < MaxResets
  /\ iter' = [IterReset(iter) EXCEPT !.resets = @ + 1, !.out = << >>, !.ends = 0,
                                     !.late = FALSE]
  /\ UNCHANGED <<fMap, fMessages, lists, nextList, nextObj, attached, proxy, nops, nprod, last>>

\* ~MergeableCollectionIterator(): Reset()
DeleteIterator ==
  /\ iter.s # 0 /\ ~iter.deleted /\ ~iter.crashed
  /\ iter' = [IterReset(iter) EXCEPT !.deleted = TRUE]
  /\ UNCHANGED <<fMap, fMessages, lists, nextList, nextObj, attached, proxy, nops, nprod, last>>

NextIter ==
  \/ \E s \in {1, 2}, text \in {<<"/">>, <<"A">>}, p \in Payloads :
       iter.s = 0 /\ Turn(s) /\ Adopt(s, text, p)
  \/ \E full \in FullIds(1) : iter.s = 0 /\ Turn(1) /\ Remove(1, full)
  \/ iter.s = 0 /\ Turn(1) /\ Attach(1, 2, << >>, FALSE)
  \/ CreateIterator(1)
  \/ \E outcome \in Outcomes : CallNext(outcome)
  \/ CallReset
  \/ DeleteIterator

SpecIter == Init /\ [][NextIter]_vars

(***************************************************************************)
(* Proxies: store 1 is filled, store 2 may be attached to it, and a proxy  *)
(* is created on store 1 and used.                                         *)
(***************************************************************************)
NextProxy ==
  \/ \E s \in {1, 2}, text \in {<<"/">>, <<"A">>}, p \in Payloads : Turn(s) /\ Adopt(s, text, p)
  \/ \E identifier \in {<< >>, <<"/", "A", "/">>} : Turn(1) /\ Attach(1, 2, identifier, FALSE)
  \/ \E text \in KeyTexts, createIfNeeded \in BOOLEAN :
       Turn(1) /\ CreateProxy(1, text, createIfNeeded)
  \/ \E p \in Payloads : Turn(1) /\ ProxyAdopt(p)
  \/ \E p \in Payloads : Turn(1) /\ ProxyAdoptAt(<<"B">>, p)
  \/ \E objectName \in Names : Turn(1) /\ ProxyGetObject(objectName)

SpecProxy == Init /\ [][NextProxy]_vars

(***************************************************************************)
(* Summing: store 1 is filled and then summed over patterns.               *)
(***************************************************************************)
\* Patterns given to getSum: "h", "/A/h", "/A/h,g", "/A/B/h".
SumPatterns ==
  { <<"h">>, <<"/", "A", "/", "h">>, <<"/", "A", "/", "h", ",", "g">>,
    <<"/", "A", "/", "B", "/", "h">> }

NextSum ==
  \/ \E text \in KeyTexts, p \in Counters : Turn(1) /\ Adopt(1, text, p)
  \/ \E p \in Counters : Turn(1) /\ AdoptTop(1, p)
  \/ \E idPattern \in SumPatterns, absorb \in BOOLEAN : Turn(1) /\ GetSum(1, idPattern, absorb)

SpecSum == Init /\ [][NextSum]_vars

(***************************************************************************)
(* Cleaning: store 1 is filled, with empty histograms too, and cleaned.    *)
(***************************************************************************)
\* Payloads with and without entries.
Fillings ==
  { [name |-> <<"h">>, cls |-> "TH1", val |-> 0],
    [name |-> <<"g">>, cls |-> "TH1", val |-> 0],
    [name |-> <<"h">>, cls |-> "TH1", val |-> 1],
    [name |-> <<"g">>, cls |-> "TGraph", val |-> 0] }

NextClean ==
  \/ \E text \in KeyTexts, p \in Fillings : Turn(1) /\ Adopt(1, text, p)
  \/ \E p \in Fillings : Turn(1) /\ AdoptTop(1, p)
  \/ Turn(1) /\ PruneEmptyObjects(1)
  \/ \E typeName \in {"TH1", "TGraph"} : Turn(1) /\ RemoveByType(1, typeName)

SpecClean == Init /\ [][NextClean]_vars

(***************************************************************************)
(* Keeping: every operation of store 1 that reads, adds or takes out       *)
(* objects, with prune and attach among them; store 2 is filled by its     *)
(* producer and merged or attached into store 1.                           *)
(***************************************************************************)
NextKeep ==
  \/ \E s \in {1, 2}, text \in KeyTexts, p \in Fillings : Turn(s) /\ Adopt(s, text, p)
  \/ \E text \in KeyTexts, createIfNeeded \in BOOLEAN :
       Turn(1) /\ CreateProxy(1, text, createIfNeeded)
  \/ \E full \in FullIds(1) : Turn(1) /\ GetObject(1, full)
  \/ \E idPattern \in SumPatterns : Turn(1) /\ GetSum(1, idPattern, TRUE)
  \/ \E full \in FullIds(1) : Turn(1) /\ Remove(1, full)
  \/ \E typeName \in {"TH1", "TGraph"} : Turn(1) /\ RemoveByType(1, typeName)
  \/ Turn(1) /\ PruneEmptyObjects(1)
  \/ \E absorb \in BOOLEAN : Turn(1) /\ DoMerge(1, <<2>>, absorb)
  \/ \E identifier \in Prefixes : Turn(1) /\ Prune(1, identifier)
  \/ \E identifier \in Prefixes : Turn(1) /\ Attach(1, 2, identifier, TRUE)

SpecKeep == Init /\ [][NextKeep]_vars

(***************************************************************************)
(* Lookup by parts: store 1 is filled, then read with key path texts.      *)
(***************************************************************************)
\* Key path texts given to getObject(identifier, objectName): "A", "/A", "A/",
\* "/A/", "//A", "/A//", "A/B", "/A/B/", "A//B", "/" and the empty text.
LookupTexts ==
  { <<"A">>, <<"/", "A">>, <<"A", "/">>, <<"/", "A", "/">>, <<"/", "/", "A">>,
    <<"/", "A", "/", "/">>, <<"A", "/", "B">>, <<"/", "A", "/", "B", "/">>,
    <<"A", "/", "/", "B">>, <<"/">>, << >> }

NextGet ==
  \/ \E text \in KeyTexts, p \in Payloads : Turn(1) /\ Adopt(1, text, p)
  \/ \E p \in Payloads : Turn(1) /\ AdoptTop(1, p)
  \/ \E identifier \in LookupTexts, objectName \in Names :
       Turn(1) /\ GetObject2(1, identifier, objectName)

SpecGet == Init /\ [][NextGet]_vars

(***************************************************************************)
(* The path codec alone: texts are canonicalized, key paths are decoded.   *)
(***************************************************************************)
\* The characters of the texts given to correctIdentifier.
Chars == {Sep, "A", "B"}

\* The texts of at most n characters.
TextsUpTo(n) == UNION {[1..k -> Chars] : k \in 0..n}

\* Key segments: non-empty, with no separator.
SegmentTexts == {<<"A">>, <<"B", "c">>}

\* The key segment sequences of 1..n segments.
SegmentSeqs(n) == UNION {[1..k -> SegmentTexts] : k \in 1..n}

\* The segments joined by the separator, as a caller writes a key path.
RECURSIVE Join(_, _)
Join(segs, i) ==
  IF i > Len(segs) THEN << >>
  ELSE (IF i = 1 THEN << >> ELSE <<Sep>>) \o segs[i] \o Join(segs, i + 1)

CorrectIdentifier(text) ==
  /\ last' = [NoOp EXCEPT !.op = "correctIdentifier", !.text = text,
                          !.out = correctIdentifier(text)]
  /\ UNCHANGED <<fMap, fMessages, lists, nextList, nextObj, attached, proxy, iter, nops, nprod>>

\* getKey(identifier, index) on the canonicalized join of the segments.
GetKey(segs, index) ==
  /\ last' = [NoOp EXCEPT !.op = "getKey", !.segs = segs, !.index = index,
                          !.text = correctIdentifier(Join(segs, 1)),
                          !.out = getKey(correctIdentifier(Join(segs, 1)), index, FALSE)]
  /\ UNCHANGED <<fMap, fMessages, lists, nextList, nextObj, attached, proxy, iter, nops, nprod>>

\* getObjectName on a canonical path followed by a name.
GetObjectName(segs, objectName) ==
  /\ last' = [NoOp EXCEPT !.op = "getObjectName", !.segs = segs,
                          !.text = correctIdentifier(Join(segs, 1)) \o objectName,
                          !.out = getObjectName(correctIdentifier(Join(segs, 1)) \o objectName)]
  /\ UNCHANGED <<fMap, fMessages, lists, nextList, nextObj, attached, proxy, iter, nops, nprod>>

InternalDecode(text, index) ==
  /\ last' = [NoOp EXCEPT !.op = "internalDecode", !.text = text, !.index = index,
                          !.out = internalDecode(text, index)]
  /\ UNCHANGED <<fMap, fMessages, lists, nextList, nextObj, attached, proxy, iter, nops, nprod>>

NextCodec ==
  \/ \E text \in TextsUpTo(MaxLen) : CorrectIdentifier(text)
  \/ \E segs \in SegmentSeqs(MaxSegs) : \E index \in 0..(Len(segs) - 1) : GetKey(segs, index)
  \/ \E segs \in SegmentSeqs(MaxSegs), objectName \in Names : GetObjectName(segs, objectName)
  \/ \E text \in TextsUpTo(MaxLen), index \in (-1)..MaxSegs : InternalDecode(text, index)

SpecCodec == Init /\ [][NextCodec]_vars

(***************************************************************************)
(* Helpers of the properties.                                              *)
(***************************************************************************)
\* The key and the name getObject(fullIdentifier) looks up.
KeyOf(full) == IF CountChar(full, Sep) = 0 THEN << >> ELSE getIdentifier(full)

NameOf(full) == IF CountChar(full, Sep) = 0 THEN full ELSE getObjectName(full)

\* The objects held by pair i of the map of store s in world w.
ObjsAt(w, s, i) == w.lists[w.fMap[s].pairs[i].list].objs

\* No collection kept under key in store s of world w holds an object named name.
Absent(w, s, key, name) ==
  \A i \in 1..Len(w.fMap[s].pairs) :
    w.fMap[s].pairs[i].key = key =>
      \A a \in 1..Len(ObjsAt(w, s, i)) : ObjsAt(w, s, i)[a].name # name

\* The object the store finds under (key, name), with no effect on the log.
Found(w, s, key, name) == internalObject(w, s, key, name).ret

\* The number of times message m is in a log.
Times(msgs, m) == IF m \in DOMAIN msgs THEN msgs[m] ELSE 0

RECURSIVE SumLen(_, _, _, _)
SumLen(w, s, idx, i) ==
  IF i > Len(w.fMap[s].pairs) THEN 0
  ELSE (IF i \in idx THEN Len(ObjsAt(w, s, i)) ELSE 0) + SumLen(w, s, idx, i + 1)

\* The (key, name) places at which store s of world w holds an object.
Places(w, s) ==
  UNION { {<<w.fMap[s].pairs[i].key, ObjsAt(w, s, i)[k].name>> :
             k \in 1..Len(ObjsAt(w, s, i))} : i \in 1..Len(w.fMap[s].pairs) }

\* The positions (pair, rank) of the objects store s holds at (key, name).
PositionsAt(w, s, key, name) ==
  UNION { {<<i, k>> : k \in {n \in 1..Len(ObjsAt(w, s, i)) : ObjsAt(w, s, i)[n].name = name}} :
          i \in {n \in 1..Len(w.fMap[s].pairs) : w.fMap[s].pairs[n].key = key} }

\* The number of objects store s holds, every collection counted once.
NumberHeld(w, s) == SumLen(w, s, 1..Len(w.fMap[s].pairs), 1)

(***************************************************************************)
(* Properties.                                                             *)
(***************************************************************************)
\* C1: adopting a non-null object whose name the store does not find at the
\* key path succeeds, and getObject on the stored key followed by the name
\* then returns that very object; the root path, adopted with no key or with
\* a key text, included.
AdoptThenGet ==
  (last.op = "adopt" /\ last.obj # NullObj
     /\ Found(last.pre, last.s, last.text, last.obj.name) = NullObj)
  => /\ last.ret = TRUE
     /\ getObject(World, last.s, last.text \o last.obj.name).ret = last.obj

AdoptThenGetWitness ==
  /\ last.op = "adopt" /\ last.ret = TRUE
  /\ last.text = << >>
  /\ numberOfKeys(World, last.s) >= 2
  /\ getObject(World, last.s, last.obj.name).ret = last.obj

\* C2: adopt of a null object, or of an object whose name the store finds at
\* the target key path, fails and changes nothing: the object stored under
\* that name is still the one returned by getObject, numberOfKeys and
\* numberOfObjects are what they were.
AdoptConflictNoMutation ==
  (last.op = "adopt"
     /\ (last.obj = NullObj
           \/ Found(last.pre, last.s, last.text, last.obj.name) # NullObj))
  => /\ last.ret = FALSE
     /\ fMap = last.pre.fMap
     /\ lists = last.pre.lists
     /\ (last.obj # NullObj =>
           /\ getObject(World, last.s, last.text \o last.obj.name).ret
                = Found(last.pre, last.s, last.text, last.obj.name)
           /\ getObject(World, last.s, last.text \o last.obj.name).ret.id # last.obj.id)
     /\ numberOfKeys(World, last.s) = numberOfKeys(last.pre, last.s)
     /\ numberOfObjects(World, last.s) = numberOfObjects(last.pre, last.s)

AdoptConflictWitness ==
  /\ last.op = "adopt" /\ last.obj # NullObj /\ last.ret = FALSE
  /\ Found(last.pre, last.s, last.text, last.obj.name) # NullObj
  /\ numberOfObjects(World, last.s) >= 1

\* C3: no key path of a store in use holds two objects of the same name,
\* counting every collection the map keeps under that key.
UniqueNames ==
  \A s \in Stores : Live(s) =>
    \A i, j \in 1..Len(fMap[s].pairs) :
      fMap[s].pairs[i].key = fMap[s].pairs[j].key =>
        \A a \in 1..Len(ObjsAt(World, s, i)), b \in 1..Len(ObjsAt(World, s, j)) :
          ObjsAt(World, s, i)[a].name = ObjsAt(World, s, j)[b].name
            => (i = j /\ a = b)

\* C7 as stated: in every state of the store, a getObject of an absent key or
\* name returns null and adds one to the count of exactly one message of
\* fMessages; clearMessages empties fMessages.
MissIsLogged ==
  /\ (last.op = "get" /\ Absent(last.pre, last.s, KeyOf(last.text), NameOf(last.text)))
     => /\ last.ret = NullObj
        /\ \E m \in DOMAIN fMessages[last.s] :
             /\ fMessages[last.s][m] = Times(last.pre.fMessages[last.s], m) + 1
             /\ \A n \in (DOMAIN fMessages[last.s] \cup DOMAIN last.pre.fMessages[last.s]) \ {m} :
                  Times(fMessages[last.s], n) = Times(last.pre.fMessages[last.s], n)
  /\ (last.op = "clearMessages" => fMessages[last.s] = << >>)

\* C7, amended: the same for a store whose map exists; a store whose map was
\* never created returns null and logs nothing.
MissIsLoggedOnceMapExists ==
  /\ (last.op = "get" /\ Absent(last.pre, last.s, KeyOf(last.text), NameOf(last.text)))
     => /\ last.ret = NullObj
        /\ (last.pre.fMap[last.s].isNull => fMessages = last.pre.fMessages)
        /\ (~last.pre.fMap[last.s].isNull =>
              \E m \in DOMAIN fMessages[last.s] :
                /\ fMessages[last.s][m] = Times(last.pre.fMessages[last.s], m) + 1
                /\ \A n \in (DOMAIN fMessages[last.s] \cup DOMAIN last.pre.fMessages[last.s]) \ {m} :
                     Times(fMessages[last.s], n) = Times(last.pre.fMessages[last.s], n))
  /\ (last.op = "clearMessages" => fMessages[last.s] = << >>)

MissIsLoggedWitness ==
  /\ last.op = "get" /\ last.ret = NullObj
  /\ ~last.pre.fMap[last.s].isNull
  /\ \E m \in DOMAIN fMessages[last.s] : fMessages[last.s][m] = 2

\* C8: remove of the full identifier of an object the store holds returns
\* that object, getObject on the identifier then returns null, and
\* numberOfKeys is unchanged.
RemoveReturnsObject ==
  (last.op = "remove" /\ getObject(last.pre, last.s, last.text).ret # NullObj)
  => /\ last.ret = getObject(last.pre, last.s, last.text).ret
     /\ getObject(World, last.s, last.text).ret = NullObj
     /\ numberOfKeys(World, last.s) = numberOfKeys(last.pre, last.s)

\* C9: prune(prefix) deletes exactly the entries whose key begins with
\* prefix, returns their number, and numberOfObjects goes down by the number
\* of objects those entries held.
PruneExact ==
  last.op = "prune" =>
    LET pre == last.pre
        s == last.s
        del == {i \in 1..Len(pre.fMap[s].pairs) :
                  BeginsWith(pre.fMap[s].pairs[i].key, last.text)}
    IN  /\ fMap[s].pairs =
             SelectSeq(pre.fMap[s].pairs, LAMBDA p : ~BeginsWith(p.key, last.text))
        /\ last.ret = Cardinality(del)
        /\ numberOfObjects(World, s) = numberOfObjects(pre, s) - SumLen(pre, s, del, 1)

\* C10: after a successful attach the source holds no entry any more, and no
\* collection is held by both the destination and the source.
AttachDrainsSource ==
  (last.op = "attach" /\ last.ret = TRUE)
  => /\ numberOfKeys(World, last.list[1]) = 0
     /\ {fMap[last.s].pairs[i].list : i \in 1..Len(fMap[last.s].pairs)}
          \cap {fMap[last.list[1]].pairs[i].list : i \in 1..Len(fMap[last.list[1]].pairs)}
        = {}

\* C4: when the two collections given to Merge hold, at the same key and
\* name, objects of one class, and the destination holds none there or one of
\* that class, the destination holds afterwards exactly one object at that
\* place, of that class; its value is the sum of the two sources' values and
\* of the destination's former value, and it is the destination's former
\* object when there was one.
MergeSameType ==
  (last.op = "merge" /\ Len(last.list) = 2) =>
    LET pre == last.pre
        a == last.list[1]
        b == last.list[2]
    IN  \A pl \in Places(pre, a) \cap Places(pre, b) :
          LET oa == Found(pre, a, pl[1], pl[2])
              ob == Found(pre, b, pl[1], pl[2])
              d == Found(pre, last.s, pl[1], pl[2])
              now == Found(World, last.s, pl[1], pl[2])
          IN  (oa.cls = ob.cls /\ (d = NullObj \/ d.cls = oa.cls)) =>
                /\ Cardinality(PositionsAt(World, last.s, pl[1], pl[2])) = 1
                /\ now.cls = oa.cls
                /\ now.val = (IF d = NullObj THEN 0 ELSE d.val) + oa.val + ob.val
                /\ (d # NullObj => now.id = d.id)
                /\ now.id \notin {oa.id, ob.id}

MergeSameTypeWitness ==
  /\ last.op = "merge" /\ Len(last.list) = 2
  /\ \E pl \in Places(last.pre, last.list[1]) \cap Places(last.pre, last.list[2]) :
       /\ Found(last.pre, last.list[1], pl[1], pl[2]).val = 5
       /\ Found(last.pre, last.list[2], pl[1], pl[2]).val = 7
       /\ Found(last.pre, last.s, pl[1], pl[2]) = NullObj
       /\ Found(World, last.s, pl[1], pl[2]).val = 12

\* C5: when the two collections given to Merge hold objects at disjoint
\* places, none of them a place of the destination, the destination holds
\* afterwards one object at each place of the three and nothing else: its own
\* objects as they were, and for each object of a source an object of the
\* same name, class and value at the same key.
MergeDisjoint ==
  (last.op = "merge" /\ Len(last.list) = 2) =>
    LET pre == last.pre
        a == last.list[1]
        b == last.list[2]
        d == last.s
    IN  (/\ Places(pre, a) \cap Places(pre, b) = {}
         /\ (Places(pre, a) \cup Places(pre, b)) \cap Places(pre, d) = {})
        => /\ Places(World, d) = Places(pre, d) \cup Places(pre, a) \cup Places(pre, b)
           /\ NumberHeld(World, d)
                = NumberHeld(pre, d) + NumberHeld(pre, a) + NumberHeld(pre, b)
           /\ \A pl \in Places(pre, d) :
                Found(World, d, pl[1], pl[2]) = Found(pre, d, pl[1], pl[2])
           /\ \A s \in {a, b} : \A pl \in Places(pre, s) :
                LET src == Found(pre, s, pl[1], pl[2])
                    now == Found(World, d, pl[1], pl[2])
                IN  /\ now.name = src.name /\ now.cls = src.cls /\ now.val = src.val
                    /\ now.id # src.id

MergeDisjointWitness ==
  /\ last.op = "merge" /\ Len(last.list) = 2
  /\ Places(last.pre, last.list[1]) # {}
  /\ Places(last.pre, last.list[2]) # {}
  /\ Places(last.pre, last.s) # {}
  /\ Places(last.pre, last.list[1]) \cap Places(last.pre, last.list[2]) = {}
  /\ (Places(last.pre, last.list[1]) \cup Places(last.pre, last.list[2]))
       \cap Places(last.pre, last.s) = {}
  /\ NumberHeld(World, last.s) = 3

\* C6: in a Merge, an object of a source found in the destination under an
\* object of another class is rejected: MergeObject returns false and the
\* destination's object keeps its value; every object of the sources is
\* still gone through.
MergeRejectsOtherClass ==
  last.op = "merge" =>
    /\ \A n \in 1..Len(last.log) :
         (last.log[n].merged /\ last.log[n].base.cls # last.log[n].obj.cls)
           => /\ last.log[n].ok = FALSE
              /\ last.log[n].val = last.log[n].base.val
    /\ Len(last.log) = NumberHeld(last.pre, last.list[1])
         + (IF Len(last.list) = 2 THEN NumberHeld(last.pre, last.list[2]) ELSE 0)

ProjectClones ==
  (last.op = "project" /\ ~last.pre.fMap[last.s].isNull) =>
    /\ last.ret # 0
    /\ fMap[last.s] = last.pre.fMap[last.s]
    /\ \A l \in DOMAIN last.pre.lists : lists[l] = last.pre.lists[l]
    /\ \A i \in 1..Len(last.pre.fMap[last.s].pairs) :
         LET key == last.pre.fMap[last.s].pairs[i].key
             rest == SubSeq(key, Len(last.text) + 1, Len(key))
         IN  BeginsWith(key, last.text) =>
               \A k \in 1..Len(ObjsAt(last.pre, last.s, i)) :
                 LET o == ObjsAt(last.pre, last.s, i)[k]
                     c == Found(World, last.ret, correctIdentifier(rest), o.name)
                 IN  /\ c.name = o.name /\ c.cls = o.cls /\ c.val = o.val
                     /\ c.id # o.id

\* The addresses of the objects store s holds, every collection of its map
\* counted.
HeldIds(w, s) ==
  UNION { {ObjsAt(w, s, i)[k].id : k \in 1..Len(ObjsAt(w, s, i))} :
          i \in 1..Len(w.fMap[s].pairs) }

\* The sequence out gives every object store s holds once.
Enumerates(out, w, s) ==
  /\ \A a, b \in 1..Len(out) : out[a] = out[b] => a = b
  /\ {out[a] : a \in 1..Len(out)} = HeldIds(w, s)

\* C13: an iterator that was never reset returns no object twice; once its
\* Next has returned null it has returned every object the store holds
\* exactly once, as many as numberOfObjects, and it returns no object any
\* more.
IteratorEnumerates ==
  (iter.s # 0 /\ iter.resets = 0 /\ ~iter.deleted) =>
    /\ \A a, b \in 1..Len(iter.out) : iter.out[a] = iter.out[b] => a = b
    /\ ~iter.late
    /\ (iter.ends >= 1 =>
          /\ Enumerates(iter.out, World, iter.s)
          /\ Len(iter.out) = numberOfObjects(World, iter.s))

\* C14: Reset leaves both cursors null, no cursor is ever deleted twice, no
\* call goes through a deleted cursor, and once Next has returned null after
\* a Reset the calls since that Reset have returned every object the store
\* holds exactly once.
ResetRestarts ==
  iter.s # 0 =>
    /\ ~iter.twice
    /\ ~iter.crashed
    /\ ((iter.resets >= 1 /\ iter.nexts = 0) => (iter.hl.null /\ iter.mapIt.null))
    /\ (~iter.deleted => ~Dangling(iter))
    /\ ((iter.resets >= 1 /\ iter.ends >= 1 /\ ~iter.deleted) =>
          Enumerates(iter.out, World, iter.s))

\* C15: for every key of the store under which createProxy gives the proxy
\* in use, the proxy's adopt(obj) returns what the store's adopt(key, obj)
\* returns and leaves the same state, its adopt(sub, obj) does as the store's
\* adopt(key followed by sub, obj), and its getObject(name) returns what the
\* store's getObject(key, name) returns.
ProxyIsPrefixedStore ==
  last.op \in {"proxyAdopt", "proxyAdoptAt", "proxyGet"} =>
    \A i \in 1..Len(last.pre.fMap[last.s].pairs) :
      LET key == last.pre.fMap[last.s].pairs[i].key
          bumped == [last.pre EXCEPT !.nextObj = @ + 1]
      IN  GetValue(last.pre.fMap[last.s].pairs, key) = proxy.list =>
            /\ last.op = "proxyAdopt" =>
                 /\ last.ret = adopt(bumped, last.s, key, last.obj).ret
                 /\ World = adopt(bumped, last.s, key, last.obj).w
            /\ last.op = "proxyAdoptAt" =>
                 /\ last.ret = adopt(bumped, last.s, key \o last.text, last.obj).ret
                 /\ World = adopt(bumped, last.s, key \o last.text, last.obj).w
            /\ last.op = "proxyGet" =>
                 last.ret = getObject2(last.pre, last.s, key, last.text).ret


\* The segments of a stored key path.
Segments(key) == Tokenize(key, Sep)

\* The positions (pair, rank) of the objects of store s the pattern selects: the
\* key path has one segment per key group, each a member of its group, and the
\* name is a member of the final group.
Selected(w, s, idPattern) ==
  LET m == KeyMatrix(idPattern)
  IN  IF Len(m) = 0 THEN {}
      ELSE { pos \in UNION { {<<i, k>> : k \in 1..Len(ObjsAt(w, s, i))} :
                               i \in 1..Len(w.fMap[s].pairs) } :
               LET segs == Segments(w.fMap[s].pairs[pos[1]].key)
               IN  /\ Len(segs) = Len(m) - 1
                   /\ \A n \in 1..Len(segs) : InGroup(segs[n], m[n])
                   /\ InGroup(ObjsAt(w, s, pos[1])[pos[2]].name, m[Len(m)]) }

RECURSIVE SumVals(_, _, _)
SumVals(w, s, S) ==
  IF S = {} THEN 0
  ELSE LET pos == CHOOSE x \in S : TRUE
       IN  ObjsAt(w, s, pos[1])[pos[2]].val + SumVals(w, s, S \ {pos})

\* C16: getSum(pattern) returns no object when the pattern selects nothing, and
\* otherwise a new object holding the merge of exactly the selected objects:
\* those whose key path has one segment per key group of the pattern, each in its
\* comma group, and whose name is in the final group (objects of one class).
GetSumExact ==
  last.op = "getSum" =>
    LET S == Selected(last.pre, last.s, last.text)
    IN  /\ (S = {}) <=> (last.ret = NullObj)
        /\ ( /\ S # {}
             /\ \A x \in S, y \in S :
                  ObjsAt(last.pre, last.s, x[1])[x[2]].cls = ObjsAt(last.pre, last.s, y[1])[y[2]].cls )
             => /\ last.ret.val = SumVals(last.pre, last.s, S)
                /\ last.ret.id = last.pre.nextObj


\* A key in canonical form: a root form, or a text that starts and ends with one
\* separator and has no empty segment.
Canonical(key) ==
  \/ key \in {<< >>, <<Sep>>}
  \/ /\ Len(key) >= 3
     /\ BeginsWith(key, <<Sep>>)
     /\ EndsWith(key, <<Sep>>)
     /\ IndexOfDoubleSep(key, 1) = 0

\* C17: in every reachable state every key of a store's map is in canonical
\* form, and no two keys of one map denote the same sequence of key segments
\* (so a map has a single root entry).
KeysCanonicalAndDistinct ==
  \A s \in Stores :
    /\ \A i \in 1..Len(fMap[s].pairs) : Canonical(fMap[s].pairs[i].key)
    /\ \A i \in 1..Len(fMap[s].pairs), j \in 1..Len(fMap[s].pairs) :
         i # j => Segments(fMap[s].pairs[i].key) # Segments(fMap[s].pairs[j].key)


\* C18: correctIdentifier yields the root path for the empty text and otherwise
\* a text that starts with the separator, ends with it and has no two
\* consecutive separators; applied to its own result it changes nothing.
CorrectIdentifierCanonical ==
  last.op = "correctIdentifier" =>
    /\ (last.text = << >> => last.out = << >>)
    /\ (last.text # << >> =>
          /\ BeginsWith(last.out, <<Sep>>)
          /\ EndsWith(last.out, <<Sep>>)
          /\ IndexOfDoubleSep(last.out, 1) = 0)
    /\ correctIdentifier(last.out) = last.out

\* C19: getKey at index i of the canonicalized join of key segments is segment
\* i, and the name of a canonical path followed by a name is that name.
DecodeRoundTrip ==
  /\ last.op = "getKey" => last.out = last.segs[last.index + 1]
  /\ last.op = "getObjectName" =>
        \E objectName \in Names :
          /\ last.text = correctIdentifier(Join(last.segs, 1)) \o objectName
          /\ last.out = objectName

\* The last segment of a key path of MaxSegs segments was decoded, and so was
\* the name behind such a path.
DecodeRoundTripWitness ==
  \/ last.op = "getKey" /\ Len(last.segs) = MaxSegs /\ last.index = MaxSegs - 1
       /\ last.out = <<"B", "c">>
  \/ last.op = "getObjectName" /\ Len(last.segs) = MaxSegs /\ last.out = <<"g">>


\* C20: getObject(keyPath, name) returns the object named name kept under the
\* key path that keyPath canonicalizes to, whatever separators keyPath lacks or
\* doubles.
GetCanonicalizes ==
  last.op = "get2" =>
    LET held == Found(last.pre, last.s, correctIdentifier(last.text), last.list)
    IN  held # NullObj => last.ret = held


\* The objects store s holds in world w, each with the key it is held under.
Holdings(w, s) ==
  UNION { {<<w.fMap[s].pairs[i].key, ObjsAt(w, s, i)[k]>> : k \in 1..Len(ObjsAt(w, s, i))} :
          i \in 1..Len(w.fMap[s].pairs) }

\* The keys of the map of store s, in the order of the map.
KeysOf(w, s) == [i \in 1..Len(w.fMap[s].pairs) |-> w.fMap[s].pairs[i].key]

\* C21: after pruneEmptyObjects the store holds no empty object at any key,
\* the root included, it still holds every object that was not empty, and its
\* keys are the ones it had.
PruneEmptyExact ==
  last.op = "pruneEmptyObjects" =>
    /\ \A h \in Holdings(World, last.s) : ~IsEmptyObject(h[2])
    /\ \A h \in Holdings(last.pre, last.s) :
         ~IsEmptyObject(h[2]) => h \in Holdings(World, last.s)
    /\ KeysOf(World, last.s) = KeysOf(last.pre, last.s)


\* The objects held by some store in world w.
HeldSomewhere(w) == UNION {{h[2].id : h \in Holdings(w, s)} : s \in Stores}

\* C27: an object that pruneEmptyObjects or removeByType takes out of a
\* collection is deleted or handed to the caller: every object the store held
\* before the call is afterwards held by a store, deleted or handed back.
NoObjectLeaked ==
  last.op \in {"pruneEmptyObjects", "removeByType"} =>
    \A h \in Holdings(last.pre, last.s) :
      h[2].id \in HeldSomewhere(World) \cup last.freed


\* The pieces of a text between its separators, the empty ones kept; cur is the
\* piece being read.
RECURSIVE PiecesFrom(_, _, _)
PiecesFrom(s, i, cur) ==
  IF i > Len(s) THEN <<cur>>
  ELSE IF s[i] = Sep THEN <<cur>> \o PiecesFrom(s, i + 1, << >>)
       ELSE PiecesFrom(s, i + 1, Append(cur, s[i]))

Pieces(s) == PiecesFrom(s, 1, << >>)

\* The number of key segments of an identifier that starts with the separator:
\* the pieces between the first separator and the last.
KeyCount(s) == Len(Pieces(s)) - 2

\* C22: internalDecode returns the empty text when the identifier is not empty
\* and does not start with the separator, and when the index is at least the
\* number of key segments of the identifier; at index -1, on an identifier
\* that starts with the separator, it returns the last segment (the name).
DecodeContract ==
  last.op = "internalDecode" =>
    /\ (last.text # << >> /\ last.text[1] # Sep) => last.out = << >>
    /\ (last.text # << >> /\ last.text[1] = Sep /\ last.index >= KeyCount(last.text))
         => last.out = << >>
    /\ (last.text = << >> /\ last.index >= 0) => last.out = << >>
    /\ (last.text # << >> /\ last.text[1] = Sep /\ last.index = -1)
         => last.out = Pieces(last.text)[Len(Pieces(last.text))]

\* The name of an identifier of MaxLen characters with one key was decoded.
DecodeContractWitness ==
  /\ last.op = "internalDecode" /\ last.index = -1
  /\ Len(last.text) = MaxLen /\ last.text[1] = Sep /\ KeyCount(last.text) = 1
  /\ last.out # << >>


\* C23: Merge returns one more than the number of collections of its list: 1
\* for an empty list, k + 1 for a list of k collections.
MergeCountsSources ==
  last.op = "merge" =>
    last.ret = 1 + Cardinality({k \in 1..Len(last.list) : last.list[k] \in Stores})

\* A list of two collections, both holding objects, was merged and counted.
MergeCountsSourcesWitness ==
  /\ last.op = "merge" /\ last.list = <<2, 3>> /\ last.ret = 3
  /\ Holdings(last.pre, 2) # {} /\ Holdings(last.pre, 3) # {}


\* The collections of store s in world w, in the order of its map.
ListsOf(w, s) == [i \in 1..Len(w.fMap[s].pairs) |-> w.lists[w.fMap[s].pairs[i].list]]

\* C28: Merge leaves every collection of its list as it was (same keys, same
\* objects, same values), and every object the destination gains is a new
\* object, held by no source.
MergeLeavesSources ==
  last.op = "merge" =>
    /\ \A k \in 1..Len(last.list) :
         LET src == last.list[k]
         IN  (src \in Stores /\ src # last.s) =>
               /\ fMap[src] = last.pre.fMap[src]
               /\ ListsOf(World, src) = ListsOf(last.pre, src)
    /\ \A h \in Holdings(World, last.s) :
         h \notin Holdings(last.pre, last.s) =>
           \/ \E g \in Holdings(last.pre, last.s) : g[1] = h[1] /\ g[2].id = h[2].id
           \/ /\ h[2].id \notin HeldSomewhere(last.pre)
              /\ \A src \in Stores \ {last.s} :
                   \A g \in Holdings(World, src) : g[2].id # h[2].id

\* A second Merge of the same source added to the clone the first one made,
\* and the source's object still has its value.
MergeLeavesSourcesWitness ==
  /\ last.op = "merge" /\ last.list = <<2>>
  /\ \E h \in Holdings(World, 1), g \in Holdings(World, 2) :
       /\ h[1] = g[1] /\ h[2].name = g[2].name /\ h[2].id # g[2].id
       /\ g[2].val = 5 /\ h[2].val = 10
       /\ \E c \in Holdings(last.pre, 1) : c[2].id = h[2].id /\ c[2].val = 5


\* The objects of store s in world w, each with its key, in the order of the
\* map and of its collections.
RECURSIVE InOrder(_, _, _)
InOrder(w, s, i) ==
  IF i > Len(w.fMap[s].pairs) THEN << >>
  ELSE [k \in 1..Len(ObjsAt(w, s, i)) |->
          [key |-> w.fMap[s].pairs[i].key, obj |-> ObjsAt(w, s, i)[k]]]
         \o InOrder(w, s, i + 1)

\* The objects of the collections of a list, one collection after the other.
RECURSIVE SourcesInOrder(_, _, _)
SourcesInOrder(w, list, k) ==
  IF k > Len(list) THEN << >>
  ELSE (IF list[k] \in Stores THEN InOrder(w, list[k], 1) ELSE << >>)
         \o SourcesInOrder(w, list, k + 1)

\* The left fold of the first m objects of seq into vals, a function from
\* places (key, name) to [cls, val]: an object at a new place is copied, an
\* object at a place that is taken is added to what is there.
RECURSIVE FoldInto(_, _, _, _, _)
FoldInto(vals, seq, n, m, absorb) ==
  IF n > m THEN vals
  ELSE LET pl == <<seq[n].key, seq[n].obj.name>>
           o == seq[n].obj
       IN  FoldInto(
             IF pl \notin DOMAIN vals THEN vals @@ (pl :> [cls |-> o.cls, val |-> o.val])
             ELSE IF vals[pl].cls = o.cls \/ absorb
                  THEN [vals EXCEPT ![pl].val = @ + o.val]
                  ELSE vals,
             seq, n + 1, m, absorb)

\* What store s holds at each of its places in world w.
ValsOf(w, s) ==
  [pl \in Places(w, s) |-> [cls |-> Found(w, s, pl[1], pl[2]).cls,
                            val |-> Found(w, s, pl[1], pl[2]).val]]

\* C25: Merge goes through the objects of its sources in the order of the list,
\* one source wholly before the next, each object is folded into what the
\* destination holds at that moment, and the destination ends as the left fold
\* of that sequence over its former state: a function of the state and the list.
MergeIsLeftFold ==
  last.op = "merge" =>
    LET seq == SourcesInOrder(last.pre, last.list, 1)
        init == ValsOf(last.pre, last.s)
    IN  /\ Len(last.log) = Len(seq)
        /\ \A n \in 1..Len(seq) :
             /\ last.log[n].key = seq[n].key
             /\ last.log[n].obj = seq[n].obj
             /\ last.log[n].val
                  = FoldInto(init, seq, 1, n, last.flag)[<<seq[n].key, seq[n].obj.name>>].val
        /\ ValsOf(World, last.s) = FoldInto(init, seq, 1, Len(seq), last.flag)

\* Store 3 then store 2 were merged at one place: 7 first, then 5 on top of it.
MergeIsLeftFoldWitness ==
  /\ last.op = "merge" /\ last.list = <<3, 2>> /\ Len(last.log) = 2
  /\ last.log[1].key = last.log[2].key /\ last.log[1].obj.name = last.log[2].obj.name
  /\ ~last.log[1].merged /\ last.log[1].val = 7
  /\ last.log[2].merged /\ last.log[2].val = 12


\* C24: after an attach that returned true, for every key p of the attached
\* collection the destination has, under the canonical form of the identifier
\* followed by p, the objects the collection held at p, and getObject finds
\* each of them there; when the destination had an entry under the identifier
\* and the attach pruned first, no object the destination held under the
\* identifier is still held by it.
AttachGrafts ==
  (last.op = "attach" /\ last.ret = TRUE) =>
    LET pre == last.pre
        mc == last.list[1]
    IN  /\ \A i \in 1..Len(pre.fMap[mc].pairs) :
             LET path == correctIdentifier(last.text \o pre.fMap[mc].pairs[i].key)
                 hl == GetValue(fMap[last.s].pairs, path)
             IN  /\ hl # NoList
                 /\ lists[hl].objs = ObjsAt(pre, mc, i)
                 /\ \A k \in 1..Len(ObjsAt(pre, mc, i)) :
                      getObject(World, last.s, path \o ObjsAt(pre, mc, i)[k].name).ret
                        = ObjsAt(pre, mc, i)[k]
        /\ (last.flag /\ GetValue(pre.fMap[last.s].pairs, last.text) # NoList) =>
             \A h \in Holdings(pre, last.s) :
               BeginsWith(h[1], last.text) =>
                 \A g \in Holdings(World, last.s) : g[2].id # h[2].id


\* The operations that are not to remove an entry of the map.
KeepingOps ==
  {"adopt", "get", "getSum", "remove", "removeByType", "pruneEmptyObjects", "merge",
   "createProxy"}

\* C26: adopt, getObject, getSum, remove, removeByType, pruneEmptyObjects, Merge
\* and createProxy leave in the map of every collection each entry it had, with
\* its collection, so numberOfKeys does not decrease; createProxy without
\* createIfNeeded on a path that has no entry gives no proxy and adds no entry.
EntriesKept ==
  last.op \in KeepingOps =>
    /\ \A s \in Stores :
         /\ numberOfKeys(World, s) >= numberOfKeys(last.pre, s)
         /\ SubSeq(fMap[s].pairs, 1, Len(last.pre.fMap[s].pairs)) = last.pre.fMap[s].pairs
    /\ ( /\ last.op = "createProxy" /\ ~last.flag
         /\ GetValue(last.pre.fMap[last.s].pairs, correctIdentifier(last.text)) = NoList )
         => /\ proxy = NoProxy
            /\ fMap[last.s].pairs = last.pre.fMap[last.s].pairs

\* The only object of the store was removed and its entry is still there.
EntriesKeptWitness ==
  /\ last.op = "remove" /\ last.ret # NullObj
  /\ numberOfKeys(World, last.s) = 1 /\ Holdings(World, last.s) = {}

=============================================================================
